---- MODULE Spec2Model ----
(***************************************************************************)
(* A model of the address-book assistant of src/main.py: the field         *)
(* validators (Phone, Birthday), Record, AddressBook, the command handlers *)
(* wrapped by input_error, load_data/save_data and the loop of main().     *)
(*                                                                         *)
(* A Python str is modelled as a sequence of characters, a character as a  *)
(* one-element TLA+ string; the two non-ASCII characters of the alphabet   *)
(* are written by their code points.                                       *)
(***************************************************************************)
EXTENDS Integers, Sequences, FiniteSets, TLC

\* ------------------------------------------------------------------------
\* Characters and str methods
\* ------------------------------------------------------------------------

AsciiDigits == {"0", "1", "2", "3", "4", "5", "6", "7", "8", "9"}

\* U+0663 ARABIC-INDIC DIGIT THREE (category Nd) and U+00B2 SUPERSCRIPT TWO
\* (category No, Numeric_Type=Digit): str.isdigit() is True for both.
NonAsciiDigits == {"U+0663", "U+00B2"}

\* The characters the regular expression class \d and int() accept.
DecimalDigits == AsciiDigits \cup {"U+0663"}

Whitespace == {" "}

DigitVal(c) ==
    CASE c = "0" -> 0 [] c = "1" -> 1 [] c = "2" -> 2 [] c = "3" -> 3
      [] c = "4" -> 4 [] c = "5" -> 5 [] c = "6" -> 6 [] c = "7" -> 7
      [] c = "8" -> 8 [] c = "9" -> 9 [] c = "U+0663" -> 3

DigitChar(n) ==
    CASE n = 0 -> "0" [] n = 1 -> "1" [] n = 2 -> "2" [] n = 3 -> "3"
      [] n = 4 -> "4" [] n = 5 -> "5" [] n = 6 -> "6" [] n = 7 -> "7"
      [] n = 8 -> "8" [] n = 9 -> "9"

\* str.isdigit(): every character is a digit and there is at least one.
isdigit(s) ==
    /\ Len(s) > 0
    /\ \A i \in 1..Len(s) : s[i] \in AsciiDigits \cup NonAsciiDigits

\* int(s) for a string of decimal digits.
RECURSIVE IntOf(_)
IntOf(s) ==
    IF s = <<>> THEN 0
    ELSE 10 * IntOf(SubSeq(s, 1, Len(s) - 1)) + DigitVal(s[Len(s)])

\* str.split(sep) for a one-character separator: the fields between the
\* separators, empty fields kept.
RECURSIVE SplitOn(_, _)
SplitOn(s, sep) ==
    IF \A i \in 1..Len(s) : s[i] # sep THEN <<s>>
    ELSE LET k == CHOOSE i \in 1..Len(s) :
                    s[i] = sep /\ \A j \in 1..(i - 1) : s[j] # sep
         IN  <<SubSeq(s, 1, k - 1)>> \o SplitOn(SubSeq(s, k + 1, Len(s)), sep)

\* str.split() without arguments: the maximal runs of non-whitespace
\* characters; no empty strings, so a blank line gives the empty list.
RECURSIVE split(_)
split(s) ==
    IF s = <<>> THEN <<>>
    ELSE IF s[1] \in Whitespace THEN split(Tail(s))
    ELSE LET ends == {i \in 1..Len(s) : s[i] \in Whitespace}
             k == IF ends = {} THEN Len(s) + 1
                  ELSE CHOOSE i \in ends : \A j \in ends : i <= j
         IN  <<SubSeq(s, 1, k - 1)>> \o split(SubSeq(s, k, Len(s)))

\* ------------------------------------------------------------------------
\* datetime.date: the proleptic Gregorian calendar
\* ------------------------------------------------------------------------

IsLeap(y) == y % 4 = 0 /\ (y % 100 # 0 \/ y % 400 = 0)

DaysInMonth(y, m) ==
    IF m = 2 THEN (IF IsLeap(y) THEN 29 ELSE 28)
    ELSE IF m \in {4, 6, 9, 11} THEN 30 ELSE 31

RECURSIVE DaysBeforeMonth(_, _)
DaysBeforeMonth(y, m) ==
    IF m = 1 THEN 0 ELSE DaysBeforeMonth(y, m - 1) + DaysInMonth(y, m - 1)

DaysBeforeYear(y) ==
    (y - 1) * 365 + (y - 1) \div 4 - (y - 1) \div 100 + (y - 1) \div 400

\* date(y, m, d) exists: the check the date constructor and replace() make.
ValidYmd(y, m, d) ==
    /\ y \in 1..9999
    /\ m \in 1..12
    /\ d \in 1..DaysInMonth(y, m)

Date(y, m, d) == [year |-> y, month |-> m, day |-> d]

\* date.toordinal(): 1 is 0001-01-01.
ToOrdinal(dt) ==
    DaysBeforeYear(dt.year) + DaysBeforeMonth(dt.year, dt.month) + dt.day

\* date.fromordinal(n): the year, then the month, that contain day n.
FromOrdinal(n) ==
    LET n0   == n - 1
        n400 == n0 \div 146097
        r400 == n0 % 146097
        n100 == r400 \div 36524
        r100 == r400 % 36524
        n4   == r100 \div 1461
        r4   == r100 % 1461
        n1   == r4 \div 365
        r1   == r4 % 365
        y    == n400 * 400 + 1 + n100 * 100 + n4 * 4 + n1
    IN  IF n1 = 4 \/ n100 = 4 THEN Date(y - 1, 12, 31)
        ELSE LET m == CHOOSE k \in 1..12 :
                        /\ DaysBeforeMonth(y, k) <= r1
                        /\ r1 < DaysBeforeMonth(y, k) + DaysInMonth(y, k)
             IN  Date(y, m, r1 - DaysBeforeMonth(y, m) + 1)

\* date.weekday(): Monday is 0, Sunday is 6.
Weekday(dt) == (ToOrdinal(dt) + 6) % 7

\* date + timedelta(days=k)
AddDays(dt, k) == FromOrdinal(ToOrdinal(dt) + k)

\* d1 <= d2 on dates
DateLe(d1, d2) == ToOrdinal(d1) <= ToOrdinal(d2)

\* ------------------------------------------------------------------------
\* Exceptions and return values
\* ------------------------------------------------------------------------

\* Python's None; no str equals it (a str is a sequence of one-character
\* strings).
None == <<"None">>

\* The outcome of a call: a returned value, or a raised exception.
Return(v) == [raised |-> FALSE, exc |-> "", msg |-> "", value |-> v]

Raise(type, message) ==
    [raised |-> TRUE, exc |-> type, msg |-> message, value |-> None]

\* ------------------------------------------------------------------------
\* Fields
\* ------------------------------------------------------------------------

PhoneLen == 10

\* Phone.__init__: the stored value, or ValueError.
Phone(value) ==
    IF ~isdigit(value) \/ Len(value) # PhoneLen
    THEN Raise("ValueError", "Phone number must be 10 digits.")
    ELSE Return(value)

\* The groups of the regular expression _strptime builds for "%d.%m.%Y":
\*   %d  3[0-1]|[1-2]\d|0[1-9]|[1-9]| [1-9]
\*   %m  1[0-2]|0[1-9]|[1-9]
\*   %Y  \d\d\d\d
DayToken(t) ==
    \/ Len(t) = 2 /\ t[1] = "3" /\ t[2] \in {"0", "1"}
    \/ Len(t) = 2 /\ t[1] \in {"1", "2"} /\ t[2] \in DecimalDigits
    \/ Len(t) = 2 /\ t[1] = "0" /\ t[2] \in AsciiDigits \ {"0"}
    \/ Len(t) = 1 /\ t[1] \in AsciiDigits \ {"0"}
    \/ Len(t) = 2 /\ t[1] = " " /\ t[2] \in AsciiDigits \ {"0"}

MonthToken(t) ==
    \/ Len(t) = 2 /\ t[1] = "1" /\ t[2] \in {"0", "1", "2"}
    \/ Len(t) = 2 /\ t[1] = "0" /\ t[2] \in AsciiDigits \ {"0"}
    \/ Len(t) = 1 /\ t[1] \in AsciiDigits \ {"0"}

YearToken(t) == Len(t) = 4 /\ \A i \in 1..4 : t[i] \in DecimalDigits

\* datetime.strptime(value, "%d.%m.%Y").date(): the date, or ValueError when
\* the text does not match the format or names no day of the calendar.
strptime(value) ==
    LET parts == SplitOn(value, ".")
    IN  IF ~(/\ Len(parts) = 3
             /\ DayToken(parts[1])
             /\ MonthToken(parts[2])
             /\ YearToken(parts[3]))
        THEN Raise("ValueError", "time data does not match format")
        ELSE LET d == IF parts[1][1] = " " THEN IntOf(Tail(parts[1]))
                      ELSE IntOf(parts[1])
                 m == IntOf(parts[2])
                 y == IntOf(parts[3])
             IN  IF ValidYmd(y, m, d) THEN Return(Date(y, m, d))
                 ELSE Raise("ValueError", "day is out of range for month")

\* n as decimal digits, zero-padded to the given width.
RECURSIVE Digits(_, _)
Digits(n, width) ==
    IF width = 0 THEN <<>>
    ELSE Digits(n \div 10, width - 1) \o <<DigitChar(n % 10)>>

\* date.strftime("%d.%m.%Y")
strftime(dt) ==
    Digits(dt.day, 2) \o <<".">> \o Digits(dt.month, 2) \o <<".">>
        \o Digits(dt.year, 4)

\* Birthday.__init__: the text is parsed to validate it, and the text
\* itself is what is stored.
Birthday(value) ==
    IF strptime(value).raised
    THEN Raise("ValueError", "Invalid date format. Please use DD.MM.YYYY.")
    ELSE Return(value)

\* ------------------------------------------------------------------------
\* Record
\* ------------------------------------------------------------------------

\* Record.__init__
Record(name) == [name |-> name, phones |-> <<>>, birthday |-> None]

\* A method call on a record: the record after the call, and what the call
\* returned or raised.
Called(rec, outcome) == [rec |-> rec, outcome |-> outcome]

\* Record.set_birthday
set_birthday(rec, birthday) ==
    LET b == Birthday(birthday)
    IN  IF b.raised THEN Called(rec, b)
        ELSE Called([rec EXCEPT !.birthday = b.value], Return(None))

\* Record.add_phone
add_phone(rec, phone_value) ==
    LET phone == Phone(phone_value)
    IN  IF phone.raised THEN Called(rec, phone)
        ELSE Called([rec EXCEPT !.phones = Append(@, phone.value)],
                    Return(None))

\* delete_phone as it would be with list.remove: only the first entry equal
\* to phone_value goes.
delete_phone_first(rec, phone_value) ==
    LET hits == {idx \in 1..Len(rec.phones) : rec.phones[idx] = phone_value}
    IN  IF hits = {} THEN Called(rec, Return(None))
        ELSE LET idx == CHOOSE i \in hits : \A j \in hits : i <= j
             IN  Called([rec EXCEPT !.phones =
                             SubSeq(@, 1, idx - 1) \o SubSeq(@, idx + 1, Len(@))],
                        Return(None))

\* Record.delete_phone
delete_phone(rec, phone_value) ==
    Called([rec EXCEPT !.phones =
                SelectSeq(@, LAMBDA phone : phone # phone_value)],
           Return(None))

\* update_phone as it would be without the return inside the loop: every
\* entry equal to old_phone is replaced.
update_phone_every(rec, old_phone, new_phone) ==
    LET hits == {idx \in 1..Len(rec.phones) : rec.phones[idx] = old_phone}
        phone == Phone(new_phone)
    IN  IF hits = {}
        THEN Called(rec, Raise("ValueError", "Phone number not found."))
        ELSE IF phone.raised THEN Called(rec, phone)
        ELSE Called([rec EXCEPT !.phones =
                        [i \in 1..Len(@) |->
                            IF i \in hits THEN phone.value ELSE @[i]]],
                    Return(TRUE))

\* Record.update_phone
update_phone(rec, old_phone, new_phone) ==
    LET hits == {idx \in 1..Len(rec.phones) : rec.phones[idx] = old_phone}
    IN  IF hits = {}
        THEN Called(rec, Raise("ValueError", "Phone number not found."))
        ELSE LET idx == CHOOSE i \in hits : \A j \in hits : i <= j
                 phone == Phone(new_phone)
             IN  IF phone.raised THEN Called(rec, phone)
                 ELSE Called([rec EXCEPT !.phones[idx] = phone.value],
                             Return(TRUE))

\* ------------------------------------------------------------------------
\* AddressBook: UserDict.data, a dict, as the sequence of its items in
\* insertion order.
\* ------------------------------------------------------------------------

Item(key, value) == [key |-> key, value |-> value]

Keys(data) == {data[i].key : i \in 1..Len(data)}

IndexOf(data, key) == CHOOSE i \in 1..Len(data) : data[i].key = key

\* dict.__setitem__: an existing key keeps its position.
SetItem(data, key, value) ==
    IF key \in Keys(data)
    THEN [data EXCEPT ![IndexOf(data, key)].value = value]
    ELSE Append(data, Item(key, value))

\* add_record as it would be on a list of records: always one entry more.
add_record_append(data, record) == Append(data, Item(record.name, record))

\* AddressBook.add_record
add_record(data, record) == SetItem(data, record.name, record)

\* AddressBook.search: dict.get
search(data, name) ==
    IF name \in Keys(data) THEN data[IndexOf(data, name)].value ELSE None

\* What `if record:` tests after record = book.search(name): search gave a
\* Record (an object without __bool__ or __len__, so a true one), not None.
Found(data, name) == name \in Keys(data)

\* AddressBook.remove_record: dict.pop(name, None); the dict afterwards and
\* the value returned.
remove_record(data, name) ==
    IF name \in Keys(data)
    THEN [data |-> SelectSeq(data, LAMBDA it : it.key # name),
          value |-> search(data, name)]
    ELSE [data |-> data, value |-> None]

WindowDays == 7

\* The window test of upcoming_birthdays.
InWindow(today, birthday_this_year) ==
    /\ DateLe(today, birthday_this_year)
    /\ DateLe(birthday_this_year, AddDays(today, WindowDays))

\* The weekend shift as it would be with a fixed two days.
Shifted_two_days(birthday_this_year) ==
    IF Weekday(birthday_this_year) >= 5
    THEN AddDays(birthday_this_year, 2)
    ELSE birthday_this_year

\* The weekend shift of upcoming_birthdays.
Shifted(birthday_this_year) ==
    IF Weekday(birthday_this_year) >= 5
    THEN AddDays(birthday_this_year, 7 - Weekday(birthday_this_year))
    ELSE birthday_this_year

\* The loop of AddressBook.upcoming_birthdays from item i on: the list built,
\* or the ValueError of date.replace(year=today.year).
RECURSIVE upcoming_from(_, _, _)
upcoming_from(data, i, today) ==
    IF i > Len(data) THEN Return(<<>>)
    ELSE LET record == data[i].value
         IN  IF record.birthday = None THEN upcoming_from(data, i + 1, today)
             ELSE LET born == strptime(record.birthday).value
                  IN  IF ~ValidYmd(today.year, born.month, born.day)
                      THEN Raise("ValueError", "day is out of range for month")
                      ELSE LET birthday_this_year ==
                                   Date(today.year, born.month, born.day)
                               rest == upcoming_from(data, i + 1, today)
                           IN  IF rest.raised THEN rest
                               ELSE IF InWindow(today, birthday_this_year)
                               THEN Return(
                                   <<[name |-> record.name,
                                      birthday |->
                                          strftime(Shifted(birthday_this_year))]>>
                                   \o rest.value)
                               ELSE rest

\* AddressBook.upcoming_birthdays, with today = datetime.now().date()
upcoming_birthdays(data, today) == upcoming_from(data, 1, today)

\* ------------------------------------------------------------------------
\* Command handlers
\* ------------------------------------------------------------------------

\* The text a handler returns; the values formatted into it are kept beside
\* the template.
Msg(text, detail) == [text |-> text, detail |-> detail]

\* A handler call: the AddressBook's data after the call and what the call
\* returned or raised.
Handled(data, outcome) == [data |-> data, outcome |-> outcome]

\* The record object search() returned is the one the dict holds: a change
\* made through it is a change of the dict's value.
Mutated(data, name, rec) ==
    [data EXCEPT ![IndexOf(data, name)].value = rec]

\* The decorator input_error: IndexError and ValueError become the text
\* "Error: <message>"; anything else propagates.
input_error(call) ==
    IF call.outcome.raised /\ call.outcome.exc \in {"IndexError", "ValueError"}
    THEN Handled(call.data, Return(Msg("Error: {error}", call.outcome.msg)))
    ELSE call

\* The body of add_contact as it would be with the new record put into the
\* book before its phone is validated.
add_contact_body_eager(args, data) ==
    IF Len(args) < 2
    THEN Handled(data, Raise("ValueError", "not enough values to unpack"))
    ELSE LET name == args[1]
             phone == args[2]
             record == search(data, name)
         IN  IF Found(data, name)
             THEN LET c == add_phone(record, phone)
                  IN  Handled(Mutated(data, name, c.rec),
                              IF c.outcome.raised THEN c.outcome
                              ELSE Return(Msg("Phone added to {name}.", name)))
             ELSE LET c == add_phone(Record(name), phone)
                  IN  Handled(add_record(data, c.rec),
                              IF c.outcome.raised THEN c.outcome
                              ELSE Return(Msg("Contact {name} created.", name)))

\* The body of add_contact.
add_contact_body(args, data) ==
    IF Len(args) < 2
    THEN Handled(data, Raise("ValueError", "not enough values to unpack"))
    ELSE LET name == args[1]
             phone == args[2]
             record == search(data, name)
         IN  IF Found(data, name)
             THEN LET c == add_phone(record, phone)
                  IN  Handled(Mutated(data, name, c.rec),
                              IF c.outcome.raised THEN c.outcome
                              ELSE Return(Msg("Phone added to {name}.", name)))
             ELSE LET c == add_phone(Record(name), phone)
                  IN  IF c.outcome.raised THEN Handled(data, c.outcome)
                      ELSE Handled(add_record(data, c.rec),
                                   Return(Msg("Contact {name} created.", name)))

add_contact(args, data) == input_error(add_contact_body(args, data))

\* The body of change_phone.
change_phone_body(args, data) ==
    IF Len(args) # 3
    THEN Handled(data, Raise("ValueError", "wrong number of values to unpack"))
    ELSE LET name == args[1]
             record == search(data, name)
         IN  IF ~Found(data, name)
             THEN Handled(data, Return(Msg("Contact or phone not found.", name)))
             ELSE LET c == update_phone(record, args[2], args[3])
                  IN  Handled(Mutated(data, name, c.rec),
                              IF c.outcome.raised THEN c.outcome
                              ELSE IF c.outcome.value = TRUE
                              THEN Return(Msg("Phone number updated for {name}.",
                                              name))
                              ELSE Return(Msg("Contact or phone not found.",
                                              name)))

change_phone(args, data) == input_error(change_phone_body(args, data))

\* The body of show_phones.
show_phones_body(args, data) ==
    IF Len(args) < 1
    THEN Handled(data, Raise("IndexError", "list index out of range"))
    ELSE LET name == args[1]
             record == search(data, name)
         IN  IF Found(data, name)
             THEN Handled(data, Return(Msg("{name}: {phones}", record.phones)))
             ELSE Handled(data, Return(Msg("Contact not found.", name)))

show_phones(args, data) == input_error(show_phones_body(args, data))

\* The body of add_birthday.
add_birthday_body(args, data) ==
    IF Len(args) # 2
    THEN Handled(data, Raise("ValueError", "wrong number of values to unpack"))
    ELSE LET name == args[1]
             record == search(data, name)
         IN  IF Found(data, name)
             THEN LET c == set_birthday(record, args[2])
                  IN  Handled(Mutated(data, name, c.rec),
                              IF c.outcome.raised THEN c.outcome
                              ELSE Return(Msg("Birthday set for {name}.", name)))
             ELSE Handled(data, Return(Msg("Contact not found.", name)))

add_birthday(args, data) == input_error(add_birthday_body(args, data))

\* The body of show_birthday.
show_birthday_body(args, data) ==
    IF Len(args) < 1
    THEN Handled(data, Raise("IndexError", "list index out of range"))
    ELSE LET name == args[1]
             record == search(data, name)
         IN  IF Found(data, name)
             THEN Handled(data,
                          IF record.birthday # None
                          THEN Return(Msg("{name}'s birthday: {birthday}",
                                          record.birthday))
                          ELSE Return(Msg("Birthday not set.", name)))
             ELSE Handled(data, Return(Msg("Contact not found.", name)))

show_birthday(args, data) == input_error(show_birthday_body(args, data))

\* The body of birthdays, the clock reading today.
birthdays_body(data, today) ==
    LET upcoming == upcoming_birthdays(data, today)
    IN  IF upcoming.raised THEN Handled(data, upcoming)
        ELSE IF upcoming.value # <<>>
        THEN Handled(data, Return(Msg("{name}: {birthday}", upcoming.value)))
        ELSE Handled(data, Return(Msg("No upcoming birthdays.", <<>>)))

birthdays(data, today) == input_error(birthdays_body(data, today))

\* parse_command: the command and its arguments, or the IndexError of
\* parts[0] on a line without a word.
parse_command(input_str) ==
    LET parts == split(input_str)
    IN  IF parts = <<>> THEN Raise("IndexError", "list index out of range")
        ELSE Return([command |-> parts[1], args |-> Tail(parts)])

\* ------------------------------------------------------------------------
\* Persistence: the file addressbook.pkl
\* ------------------------------------------------------------------------

Absent == [state |-> "absent", data |-> <<>>]

\* A file whose bytes are not a pickle (truncated, or written by something
\* else).
Corrupt == [state |-> "corrupt", data |-> <<>>]

\* save_data: pickle.dump of the book.
save_data(data) == [state |-> "pickle", data |-> data]

\* load_data: FileNotFoundError is caught and gives an empty AddressBook;
\* what pickle.load raises is not caught.
load_data(f) ==
    IF f.state = "absent" THEN Return(<<>>)
    ELSE IF f.state = "corrupt"
    THEN Raise("UnpicklingError", "invalid load key")
    ELSE Return(f.data)

\* ------------------------------------------------------------------------
\* Inputs
\* ------------------------------------------------------------------------

Ann == <<"A", "n", "n">>

Bob == <<"B", "o", "b">>

P1 == <<"1", "2", "3", "4", "5", "6", "7", "8", "9", "0">>

P2 == <<"0", "9", "8", "7", "6", "5", "4", "3", "2", "1">>

PShort == <<"1", "2", "3", "4", "5", "6", "7", "8", "9">>

PLong == <<"1", "2", "3", "4", "5", "6", "7", "8", "9", "0", "1">>

PAlpha == <<"1", "2", "3", "4", "5", "a", "b", "c", "d", "e">>

BLeap == <<"2", "9", ".", "0", "2", ".", "2", "0", "2", "4">>

BMay == <<"2", "0", ".", "0", "5", ".", "2", "0", "2", "4">>

BSat == <<"2", "5", ".", "0", "5", ".", "2", "0", "2", "4">>

BJan == <<"0", "2", ".", "0", "1", ".", "2", "0", "0", "0">>

BNoLeap == <<"2", "9", ".", "0", "2", ".", "2", "0", "2", "3">>

BDashes == <<"2", "0", "-", "0", "5", "-", "2", "0", "2", "4">>

EXIT == <<"e", "x", "i", "t">>

CLOSE == <<"c", "l", "o", "s", "e">>

HELLO == <<"h", "e", "l", "l", "o">>

ADD == <<"a", "d", "d">>

CHANGE == <<"c", "h", "a", "n", "g", "e">>

PHONE == <<"p", "h", "o", "n", "e">>

ALL == <<"a", "l", "l">>

ADD_BIRTHDAY == <<"a", "d", "d", "-", "b", "i", "r", "t", "h", "d", "a", "y">>

SHOW_BIRTHDAY == <<"s", "h", "o", "w", "-", "b", "i", "r", "t", "h", "d", "a", "y">>

BIRTHDAYS == <<"b", "i", "r", "t", "h", "d", "a", "y", "s">>

HELP == <<"h", "e", "l", "p">>

FOO == <<"f", "o", "o">>

\* Ten characters, each the non-ASCII digit U+0663.
PArabic == [i \in 1..PhoneLen |-> "U+0663"]

Names == {Ann, Bob}

\* The longest phone list the model lets a record grow to.
MaxPhones == 2

PhonesBounded(data) ==
    \A i \in 1..Len(data) : Len(data[i].value.phones) <= MaxPhones

\* The words joined by single spaces.
RECURSIVE Line(_)
Line(words) ==
    IF Len(words) = 1 THEN words[1]
    ELSE words[1] \o <<" ">> \o Line(Tail(words))

\* The lines typed at the prompt of main().
Lines ==
    {<<>>, <<" ", " ">>}
    \cup {Line(<<c>>) : c \in {EXIT, CLOSE, HELLO, HELP, ALL, BIRTHDAYS, FOO,
                               ADD, CHANGE, PHONE, ADD_BIRTHDAY, SHOW_BIRTHDAY}}
    \cup {Line(<<ADD, n, p>>) : n \in Names, p \in {P1, PArabic, PShort, PAlpha}}
    \cup {Line(<<ADD, Ann>>), Line(<<ADD, Ann, P1, FOO>>),
          <<" ">> \o ADD \o <<" ", " ">> \o Bob \o <<" ">> \o P1 \o <<" ">>}
    \cup {Line(<<CHANGE, n, o, p>>) :
              n \in Names, o \in {P1, PArabic}, p \in {P1, PArabic, PLong}}
    \cup {Line(<<CHANGE, Ann, P1>>), Line(<<CHANGE, Ann, P1, PArabic, FOO>>)}
    \cup {Line(<<PHONE, n>>) : n \in Names}
    \cup {Line(<<ADD_BIRTHDAY, n, b>>) : n \in Names, b \in {BLeap, BNoLeap, BDashes}}
    \cup {Line(<<ADD_BIRTHDAY, Ann>>)}
    \cup {Line(<<SHOW_BIRTHDAY, n>>) : n \in Names}

\* Each line with what parse_command makes of it.
Parsed == {[line |-> l, parsed |-> parse_command(l)] : l \in Lines}

\* The command and arguments of the lines whose first word is one of cmds.
Typed(cmds) ==
    {p.parsed.value : p \in {q \in Parsed :
        ~q.parsed.raised /\ q.parsed.value.command \in cmds}}

Commands == {EXIT, CLOSE, HELLO, ADD, CHANGE, PHONE, ALL, ADD_BIRTHDAY,
             SHOW_BIRTHDAY, BIRTHDAYS, HELP}

\* The days datetime.now() falls on during a session.
SessionDays == {Date(2024, 2, 27), Date(2025, 2, 27)}

\* The files a run of main() may find: none, one that is no pickle, one
\* that an earlier run saved.
FilesFound ==
    {Absent, Corrupt,
     save_data(add_contact(<<Ann, P1>>, <<>>).data)}

\* ------------------------------------------------------------------------
\* State
\* ------------------------------------------------------------------------

VARIABLES
    pc,     \* where the run is: "start", "loop", "done", "crashed" in main();
            \* "api" and "query" for a caller of the classes and handlers
    book,   \* AddressBook.data
    file,   \* addressbook.pkl
    saves,  \* the save_data calls of the run
    out     \* the last operation: its name, its arguments (for a birthday
            \* query, the date datetime.now() gave) and its outcome

vars == <<pc, book, file, saves, out>>

Did(op, args, outcome) == [op |-> op, args |-> args, outcome |-> outcome]

NoOp == Did("", <<>>, Return(None))

\* ------------------------------------------------------------------------
\* main()
\* ------------------------------------------------------------------------

Init ==
    /\ pc = "start"
    /\ book = <<>>
    /\ file \in FilesFound
    /\ saves = 0
    /\ out = NoOp

\* book = load_data(); the welcome message.
Load ==
    /\ pc = "start"
    /\ LET loaded == load_data(file)
       IN  IF loaded.raised
           THEN /\ pc' = "crashed"
                /\ out' = Did("load_data", <<>>, loaded)
                /\ book' = book
           ELSE /\ pc' = "loop"
                /\ out' = Did("load_data", <<>>, Return(Msg("Welcome", <<>>)))
                /\ book' = loaded.value
    /\ UNCHANGED <<file, saves>>

\* A line parse_command raises on: the exception leaves main().
ReadUnparsed ==
    /\ pc = "loop"
    /\ \E p \in Parsed :
        /\ p.parsed.raised
        /\ pc' = "crashed"
        /\ out' = Did("parse_command", p.line, p.parsed)
    /\ UNCHANGED <<book, file, saves>>

\* exit, close
CmdExit ==
    /\ pc = "loop"
    /\ \E c \in Typed({EXIT, CLOSE}) :
        /\ file' = save_data(book)
        /\ saves' = saves + 1
        /\ out' = Did("exit", c.args, Return(Msg("Goodbye!", <<>>)))
        /\ pc' = "done"
    /\ UNCHANGED book

\* A command that changes nothing and shows a fixed or unknown-command text.
Shows(cmds, op, text) ==
    /\ pc = "loop"
    /\ \E c \in Typed(cmds) :
        out' = Did(op, c.args, Return(Msg(text, <<>>)))
    /\ UNCHANGED <<pc, book, file, saves>>

CmdHello == Shows({HELLO}, "hello", "How can I assist you today?")

CmdHelp == Shows({HELP}, "help", "Available commands:")

\* A handler's call shown by view.show_message.
Shown(op, args, call) ==
    /\ PhonesBounded(call.data)
    /\ book' = call.data
    /\ IF call.outcome.raised THEN pc' = "crashed" ELSE pc' = pc
    /\ out' = Did(op, args, call.outcome)

CmdAdd ==
    /\ pc = "loop"
    /\ \E c \in Typed({ADD}) : Shown("add", c.args, add_contact(c.args, book))
    /\ UNCHANGED <<file, saves>>

CmdChange ==
    /\ pc = "loop"
    /\ \E c \in Typed({CHANGE}) :
        Shown("change", c.args, change_phone(c.args, book))
    /\ UNCHANGED <<file, saves>>

CmdPhone ==
    /\ pc = "loop"
    /\ \E c \in Typed({PHONE}) :
        Shown("phone", c.args, show_phones(c.args, book))
    /\ UNCHANGED <<file, saves>>

\* all: view.show_all_contacts(book)
CmdAll ==
    /\ pc = "loop"
    /\ \E c \in Typed({ALL}) :
        out' = Did("all", c.args,
                   Return(IF book # <<>> THEN Msg("Address Book:", book)
                          ELSE Msg("Address book is empty.", <<>>)))
    /\ UNCHANGED <<pc, book, file, saves>>

CmdAddBirthday ==
    /\ pc = "loop"
    /\ \E c \in Typed({ADD_BIRTHDAY}) :
        Shown("add-birthday", c.args, add_birthday(c.args, book))
    /\ UNCHANGED <<file, saves>>

CmdShowBirthday ==
    /\ pc = "loop"
    /\ \E c \in Typed({SHOW_BIRTHDAY}) :
        Shown("show-birthday", c.args, show_birthday(c.args, book))
    /\ UNCHANGED <<file, saves>>

CmdBirthdays ==
    /\ pc = "loop"
    /\ \E c \in Typed({BIRTHDAYS}), today \in SessionDays :
        Shown("birthdays", <<today>>, birthdays(book, today))
    /\ UNCHANGED <<file, saves>>

\* Any other first word.
CmdUnknown ==
    /\ pc = "loop"
    /\ \E p \in Parsed :
        /\ ~p.parsed.raised
        /\ p.parsed.value.command \notin Commands
        /\ out' = Did("unknown", p.parsed.value.args,
                      Return(Msg("Unknown command. Please try again.", <<>>)))
    /\ UNCHANGED <<pc, book, file, saves>>

Next ==
    \/ Load
    \/ ReadUnparsed
    \/ CmdExit
    \/ CmdHello
    \/ CmdHelp
    \/ CmdAdd
    \/ CmdChange
    \/ CmdPhone
    \/ CmdAll
    \/ CmdAddBirthday
    \/ CmdShowBirthday
    \/ CmdBirthdays
    \/ CmdUnknown

Spec == Init /\ [][Next]_vars

\* ------------------------------------------------------------------------
\* A caller of Record, AddressBook and the handlers
\* ------------------------------------------------------------------------

ApiPhones == {P1, P2, PShort}

ApiBirthdays == {BMay, BNoLeap}

\* The records a caller builds before add_record.
Built == {Record(n) : n \in Names}
         \cup {add_phone(Record(n), P2).rec : n \in Names}

AddArgs == {<<n, p>> : n \in Names, p \in ApiPhones} \cup {<<Ann>>, <<>>}

ChangeArgs ==
    {<<n, o, p>> : n \in Names, o \in {P1, P2}, p \in {P2, PAlpha}}
    \cup {<<Ann, P1>>}

BirthdayArgs == {<<n, b>> : n \in Names, b \in ApiBirthdays} \cup {<<Ann>>}

InitApi ==
    /\ pc = "api"
    /\ book = <<>>
    /\ file = Absent
    /\ saves = 0
    /\ out = NoOp

\* A method call on the record book.search(name) gave.
OnRecord(op, name, args, c) ==
    /\ book' = Mutated(book, name, c.rec)
    /\ PhonesBounded(book')
    /\ out' = Did(op, <<name>> \o args, c.outcome)

ApiAddPhone ==
    /\ pc = "api"
    /\ \E name \in Keys(book), p \in ApiPhones :
        OnRecord("add_phone", name, <<p>>, add_phone(search(book, name), p))
    /\ UNCHANGED <<pc, file, saves>>

ApiDeletePhone ==
    /\ pc = "api"
    /\ \E name \in Keys(book), p \in {P1, P2} :
        OnRecord("delete_phone", name, <<p>>,
                 delete_phone(search(book, name), p))
    /\ UNCHANGED <<pc, file, saves>>

ApiUpdatePhone ==
    /\ pc = "api"
    /\ \E name \in Keys(book), o \in {P1, P2}, p \in ApiPhones :
        OnRecord("update_phone", name, <<o, p>>,
                 update_phone(search(book, name), o, p))
    /\ UNCHANGED <<pc, file, saves>>

ApiSetBirthday ==
    /\ pc = "api"
    /\ \E name \in Keys(book), b \in ApiBirthdays :
        OnRecord("set_birthday", name, <<b>>,
                 set_birthday(search(book, name), b))
    /\ UNCHANGED <<pc, file, saves>>

ApiAddRecord ==
    /\ pc = "api"
    /\ \E record \in Built :
        /\ book' = add_record(book, record)
        /\ out' = Did("add_record", <<record>>, Return(None))
    /\ UNCHANGED <<pc, file, saves>>

ApiRemoveRecord ==
    /\ pc = "api"
    /\ \E name \in Names :
        LET popped == remove_record(book, name)
        IN  /\ book' = popped.data
            /\ out' = Did("remove_record", <<name>>, Return(popped.value))
    /\ UNCHANGED <<pc, file, saves>>

ApiSearch ==
    /\ pc = "api"
    /\ \E name \in Names :
        out' = Did("search", <<name>>, Return(search(book, name)))
    /\ UNCHANGED <<pc, book, file, saves>>

\* A handler called with (args, book).
ByHandler(op, args, call) ==
    /\ book' = call.data
    /\ PhonesBounded(book')
    /\ out' = Did(op, args, call.outcome)

ApiAddContact ==
    /\ pc = "api"
    /\ \E args \in AddArgs :
        ByHandler("add_contact", args, add_contact(args, book))
    /\ UNCHANGED <<pc, file, saves>>

ApiChangePhone ==
    /\ pc = "api"
    /\ \E args \in ChangeArgs :
        ByHandler("change_phone", args, change_phone(args, book))
    /\ UNCHANGED <<pc, file, saves>>

ApiAddBirthday ==
    /\ pc = "api"
    /\ \E args \in BirthdayArgs :
        ByHandler("add_birthday", args, add_birthday(args, book))
    /\ UNCHANGED <<pc, file, saves>>

NextApi ==
    \/ ApiAddPhone
    \/ ApiDeletePhone
    \/ ApiUpdatePhone
    \/ ApiAddRecord
    \/ ApiRemoveRecord
    \/ ApiSearch
    \/ ApiAddContact
    \/ ApiChangePhone

SpecApi == InitApi /\ [][NextApi]_vars

\* The operations that validate before they change a record, birthdays
\* included.
NextMutate ==
    \/ ApiAddPhone
    \/ ApiUpdatePhone
    \/ ApiSetBirthday
    \/ ApiAddContact
    \/ ApiChangePhone
    \/ ApiAddBirthday

SpecMutate == InitApi /\ [][NextMutate]_vars

\* ------------------------------------------------------------------------
\* The birthday query under a clock
\* ------------------------------------------------------------------------

QueryBirthdays == {BLeap, BSat, BJan, BNoLeap}

\* The days from start on, n more after it.
DaysFrom(start, n) == {AddDays(start, k) : k \in 0..n}

\* The days datetime.now() is taken from: the weeks around the birthdays,
\* in leap and non-leap years, and the turn of a year.
QueryDays ==
    DaysFrom(Date(2024, 5, 17), 9) \cup DaysFrom(Date(2025, 5, 17), 9)
    \cup DaysFrom(Date(2023, 5, 24), 1) \cup DaysFrom(Date(2024, 2, 22), 8)
    \cup DaysFrom(Date(2023, 12, 27), 7)

InitQuery ==
    /\ pc = "query"
    /\ book = <<>>
    /\ file = Absent
    /\ saves = 0
    /\ out = NoOp

\* Each contact is added once, with one phone.
QueryAdd ==
    /\ pc = "query"
    /\ \E name \in Names \ Keys(book) :
        ByHandler("add_contact", <<name, P1>>, add_contact(<<name, P1>>, book))
    /\ UNCHANGED <<pc, file, saves>>

QueryAddBirthday ==
    /\ pc = "query"
    /\ \E name \in Names, b \in QueryBirthdays :
        ByHandler("add_birthday", <<name, b>>, add_birthday(<<name, b>>, book))
    /\ UNCHANGED <<pc, file, saves>>

\* book.upcoming_birthdays() at a reading of the clock.
QueryUpcoming ==
    /\ pc = "query"
    /\ \E today \in QueryDays :
        out' = Did("upcoming_birthdays", <<today>>,
                   upcoming_birthdays(book, today))
    /\ UNCHANGED <<pc, book, file, saves>>

NextQuery ==
    \/ QueryAdd
    \/ QueryAddBirthday
    \/ QueryUpcoming

SpecQuery == InitQuery /\ [][NextQuery]_vars

\* ------------------------------------------------------------------------
\* Properties
\* ------------------------------------------------------------------------

\* The operation failed: it raised, or the handler returned an error or
\* not-found text.
Failed(o) ==
    \/ o.outcome.raised
    \/ /\ o.op \in {"add_contact", "change_phone", "add_birthday"}
       /\ o.outcome.value.text \in {"Error: {error}",
                                    "Contact or phone not found.",
                                    "Contact not found."}

\* C1: a failed add_phone, set_birthday, update_phone, add_contact,
\* change_phone or add_birthday leaves the book as it was: the same names,
\* and for every record the same phones and birthday.
C1_FailureAtomicity == [][Failed(out') => book' = book]_vars

\* A failed add_contact for a name the book does not hold, beside another
\* contact: the name is still absent.
C1_Witness ==
    /\ out.op = "add_contact"
    /\ Failed(out)
    /\ Len(out.args) = 2
    /\ out.args[1] \notin Keys(book)
    /\ book # <<>>

\* A string of exactly ten ASCII digits.
TenAsciiDigits(s) ==
    Len(s) = 10 /\ \A i \in 1..Len(s) : s[i] \in AsciiDigits

\* C2: update_phone(old, new) on a record holding old, with a valid new,
\* succeeds and replaces the entry at the lowest index holding old: the
\* length and every other position, later entries equal to old included,
\* are as before.
C2_UpdateFirstOnly ==
    [][(/\ out'.op = "update_phone"
        /\ \E i \in 1..Len(search(book, out'.args[1]).phones) :
               search(book, out'.args[1]).phones[i] = out'.args[2]
        /\ TenAsciiDigits(out'.args[3]))
       => LET before == search(book, out'.args[1]).phones
              after == search(book', out'.args[1]).phones
              first == CHOOSE i \in 1..Len(before) :
                           /\ before[i] = out'.args[2]
                           /\ \A j \in 1..(i - 1) : before[j] # out'.args[2]
          IN  /\ ~out'.outcome.raised
              /\ Len(after) = Len(before)
              /\ after[first] = out'.args[3]
              /\ \A i \in 1..Len(before) : i # first => after[i] = before[i]
      ]_vars

\* An update_phone that succeeded and left a later entry equal to old behind
\* the replaced one.
C2_Witness ==
    /\ out.op = "update_phone"
    /\ ~out.outcome.raised
    /\ out.args[2] # out.args[3]
    /\ search(book, out.args[1]).phones = <<out.args[3], out.args[2]>>

\* The entries of seq other than p, in their order.
RECURSIVE Without(_, _)
Without(seq, p) ==
    IF seq = <<>> THEN <<>>
    ELSE IF Head(seq) = p THEN Without(Tail(seq), p)
    ELSE <<Head(seq)>> \o Without(Tail(seq), p)

\* C3: delete_phone(p) reports no error, removes every entry equal to p and
\* keeps the others in order; the record's name and birthday and the other
\* records stay, and with p absent the whole book stays as it was.
C3_DeleteEvery ==
    [][out'.op = "delete_phone"
       => LET name == out'.args[1]
              p == out'.args[2]
              before == search(book, name)
              after == search(book', name)
          IN  /\ ~out'.outcome.raised
              /\ after.phones = Without(before.phones, p)
              /\ \A i \in 1..Len(after.phones) : after.phones[i] # p
              /\ after.name = before.name
              /\ after.birthday = before.birthday
              /\ Keys(book') = Keys(book)
              /\ \A n \in Keys(book) \ {name} :
                     search(book', n) = search(book, n)
              /\ (\A i \in 1..Len(before.phones) : before.phones[i] # p)
                     => book' = book
      ]_vars

\* A delete_phone that emptied a record of a book with another contact.
C3_Witness ==
    /\ out.op = "delete_phone"
    /\ search(book, out.args[1]).phones = <<>>
    /\ Len(book) = 2

\* Every key once, each with the record of that name.
UniqueKeys(data) ==
    /\ \A i, j \in 1..Len(data) : data[i].key = data[j].key => i = j
    /\ \A i \in 1..Len(data) : data[i].value.name = data[i].key

\* C4: the book maps each name to exactly one record, and add_record(r)
\* for a name already present puts r in the place of the record of that
\* name: the number of entries and the entries of the other names are as
\* before.
C4_OneRecordPerName ==
    [][/\ UniqueKeys(book')
       /\ out'.op = "add_record"
          => LET r == out'.args[1]
             IN  /\ search(book', r.name) = r
                 /\ Cardinality({i \in 1..Len(book') :
                                    book'[i].key = r.name}) = 1
                 /\ r.name \in Keys(book) => Len(book') = Len(book)
                 /\ r.name \notin Keys(book) => Len(book') = Len(book) + 1
                 /\ \A n \in Keys(book) \ {r.name} :
                        search(book', n) = search(book, n)
      ]_vars

\* An add_record whose record stands first of two: its name was there
\* before (a new name goes last), so the record replaced one.
C4_Witness ==
    /\ out.op = "add_record"
    /\ Len(book) = 2
    /\ book[1].value = out.args[1]

\* The record's birthday, taken to the year of today, is one of the eight
\* days from today to today + 7.
AnchoredInWindow(rec, today) ==
    /\ rec.birthday # None
    /\ \E k \in 0..7 :
        LET day == FromOrdinal(ToOrdinal(today) + k)
            born == strptime(rec.birthday).value
        IN  /\ day.year = today.year
            /\ day.month = born.month
            /\ day.day = born.day

\* The names of the records of data from item i on that AnchoredInWindow
\* holds for, in the order of the book.
RECURSIVE DueFrom(_, _, _)
DueFrom(data, i, today) ==
    IF i > Len(data) THEN <<>>
    ELSE (IF AnchoredInWindow(data[i].value, today)
          THEN <<data[i].value.name>> ELSE <<>>)
         \o DueFrom(data, i + 1, today)

\* C5: upcoming_birthdays reports exactly the records with a birthday whose
\* anchored date lies in today .. today + 7, in the order of the book; a
\* date before today is not carried to the next year.
C5_ReportsExactlyTheWindow ==
    out.op = "upcoming_birthdays"
    => (IF out.outcome.raised THEN <<>>
        ELSE [k \in 1..Len(out.outcome.value) |->
                 out.outcome.value[k].name])
       = DueFrom(book, 1, out.args[1])

\* The same of the queries that return a list.
ReportsTheWindowWhenItReturns ==
    (out.op = "upcoming_birthdays" /\ ~out.outcome.raised)
    => [k \in 1..Len(out.outcome.value) |-> out.outcome.value[k].name]
           = DueFrom(book, 1, out.args[1])

\* C6: a reported date is the anchored date when that is a Monday to
\* Friday, two days later when it is a Saturday, one day later when it is a
\* Sunday: never a Saturday or Sunday, never before the anchored date.
C6_WeekendToMonday ==
    (out.op = "upcoming_birthdays" /\ ~out.outcome.raised)
    => \A k \in 1..Len(out.outcome.value) :
        LET item == out.outcome.value[k]
            born == strptime(search(book, item.name).birthday).value
            anchored == Date(out.args[1].year, born.month, born.day)
            reported == strptime(item.birthday)
            gap == ToOrdinal(reported.value) - ToOrdinal(anchored)
        IN  /\ ~reported.raised
            /\ Weekday(anchored) \in 0..4 => gap = 0
            /\ Weekday(anchored) = 5 => gap = 2
            /\ Weekday(anchored) = 6 => gap = 1
            /\ Weekday(reported.value) \in 0..4
            /\ gap > 0 => Weekday(reported.value) = 0
            /\ gap >= 0

\* A reported date that the shift moved past today + 7.
C6_Witness ==
    /\ out.op = "upcoming_birthdays"
    /\ ~out.outcome.raised
    /\ \E k \in 1..Len(out.outcome.value) :
        ToOrdinal(strptime(out.outcome.value[k].birthday).value)
            > ToOrdinal(out.args[1]) + 7

\* C7: the loop of main() ends only on exit or close, with the book saved
\* exactly once, then; every other line leaves it reading the next one.
C7_OnlyExitEnds ==
    /\ (pc \in {"done", "crashed"} /\ out.op # "load_data")
           => (pc = "done" /\ out.op = "exit" /\ saves = 1
               /\ file = save_data(book))
    /\ pc = "loop" => saves = 0

\* C8: every phone a record of the book holds is ten ASCII digits.
C8_PhonesAreTenAsciiDigits ==
    \A i \in 1..Len(book) :
        \A k \in 1..Len(book[i].value.phones) :
            TenAsciiDigits(book[i].value.phones[k])

\* C9: load_data never fails: it gives an empty book when there is no file
\* and when the file is unreadable, and the saved book otherwise.
C9_LoadNeverFails ==
    out.op = "load_data"
    => /\ pc = "loop"
       /\ ~out.outcome.raised
       /\ file.state \in {"absent", "corrupt"} => book = <<>>
       /\ file.state = "pickle" => book = file.data

\* C10: upcoming_birthdays returns a list for every book built by the add
\* and add-birthday handlers and every today; it does not raise.
C10_QueryIsTotal ==
    out.op = "upcoming_birthdays" => ~out.outcome.raised

====
